---- MODULE Spec2Model ----
(***************************************************************************)
(* A model of the SimplePay API client (src/simplepay/__init__.py).        *)
(*                                                                         *)
(* The client is a class holding one API key.  Every public operation goes *)
(* through one of two executors: request (blocking, built on requests) and *)
(* request_async (a coroutine built on aiohttp that first sleeps a random  *)
(* time).  The model follows one call from its invocation to its outcome:  *)
(* the request it puts on the wire, the response that comes back, the      *)
(* classification of that response and the shaping done by the wrapper.    *)
(*                                                                         *)
(* Python values are modelled as tagged records, Python exceptions as      *)
(* outcomes of kind "raise", time in hundredths of a second (the unit of   *)
(* random.randrange(20, 100) / 100.0).                                     *)
(***************************************************************************)
EXTENDS Integers, Sequences, FiniteSets, TLC

VARIABLES api_key, key, call, log

vars == <<api_key, key, call, log>>

(***************************************************************************)
(* Bounds of the model.                                                    *)
(***************************************************************************)
\* number of caller tasks that may hold a call
NumTasks == 2
\* the clock advances in steps of TickStep hundredths of a second
TickStep == 30

Tasks == 1..NumTasks

(***************************************************************************)
(* Program constants.                                                      *)
(***************************************************************************)
\* SimplePay._URL
URL == "https://www.simplepay.co.za/api/v1"
\* random.randrange(SleepLo, SleepHi) / 100.0
SleepLo == 20
SleepHi == 100

(***************************************************************************)
(* Python values: JSON documents after json.loads, and what wrappers       *)
(* return.  A dict keeps its insertion order in keys.                      *)
(***************************************************************************)
JNone == [t |-> "None"]
JStr(s) == [t |-> "str", s |-> s]
JInt(n) == [t |-> "int", n |-> n]
JList(l) == [t |-> "list", l |-> l]
JDict(keys, d) == [t |-> "dict", keys |-> keys, d |-> d]
JBool(b) == [t |-> "bool", b |-> b]
\* a requests.Response object handed back as it was received
ResponseObj(r) == [t |-> "Response", resp |-> r]
\* bytes of a body (Response.content)
JBytes(s) == [t |-> "bytes", s |-> s]

(***************************************************************************)
(* Outcomes of a Python evaluation: a returned value or a raised           *)
(* exception with its message.                                             *)
(***************************************************************************)
Return(v) == [kind |-> "return", exc |-> "none", message |-> "", value |-> v]
Raise(e, m) == [kind |-> "raise", exc |-> e, message |-> m, value |-> JNone]
NoOutcome == [kind |-> "none", exc |-> "none", message |-> "", value |-> JNone]

(***************************************************************************)
(* Python built-ins used by the client.                                    *)
(***************************************************************************)
RECURSIVE PyRepr(_), ReprItems(_, _), ReprPairs(_, _, _)

\* repr(v): what str() of a container shows for its elements
PyRepr(v) ==
    CASE v.t = "str" -> "'" \o v.s \o "'"
      [] v.t = "int" -> ToString(v.n)
      [] v.t = "None" -> "None"
      [] v.t = "bool" -> IF v.b THEN "True" ELSE "False"
      [] v.t = "list" -> "[" \o ReprItems(v.l, 1) \o "]"
      [] v.t = "dict" -> "{" \o ReprPairs(v.keys, v.d, 1) \o "}"

ReprItems(l, i) ==
    IF i > Len(l) THEN ""
    ELSE PyRepr(l[i]) \o (IF i < Len(l) THEN ", " ELSE "") \o ReprItems(l, i + 1)

ReprPairs(keys, d, i) ==
    IF i > Len(keys) THEN ""
    ELSE "'" \o keys[i] \o "': " \o PyRepr(d[keys[i]])
         \o (IF i < Len(keys) THEN ", " ELSE "") \o ReprPairs(keys, d, i + 1)

\* str(v)
PyStr(v) == IF v.t = "str" THEN v.s ELSE PyRepr(v)

\* v.get(k): None for a missing key
PyGetItemOrNone(v, k) ==
    CASE v.t = "dict" ->
            IF \E i \in 1..Len(v.keys) : v.keys[i] = k
            THEN Return(v.d[k])
            ELSE Return(JNone)
      [] v.t \in {"list", "str"} -> Raise("TypeError", "indices must be integers")
      [] v.t \in {"int", "None", "bool"} -> Raise("TypeError", "object is not subscriptable")

\* v[k] for a string key k
PyGetItem(v, k) ==
    CASE v.t = "dict" ->
            IF \E i \in 1..Len(v.keys) : v.keys[i] = k
            THEN Return(v.d[k])
            ELSE Raise("KeyError", "'" \o k \o "'")
      [] v.t \in {"list", "str"} -> Raise("TypeError", "indices must be integers")
      [] v.t \in {"int", "None", "bool"} -> Raise("TypeError", "object is not subscriptable")

\* k in v, for a dict v
PyContains(v, k) == \E i \in 1..Len(v.keys) : v.keys[i] = k

\* message += s
PyIAddStr(m, s) ==
    CASE m.t = "str" -> Return(JStr(m.s \o s))
      [] m.t \in {"int", "None", "bool", "dict"} ->
            Raise("TypeError", "unsupported operand type(s) for +=")

(***************************************************************************)
(* Response bodies.  A body is its raw text and the Content-Type the       *)
(* server declared for it; json.loads is given by its value on each text.  *)
(***************************************************************************)
TextNotFound == "{\"message\": \"Employee not found\"}"
TextInvalidToken == "{\"message\": \"Invalid token\", \"errors\": [\"token_invalid\"]}"
TextErrorsOnly == "{\"errors\": [\"token_invalid\"]}"
TextEmployee == "{\"employee\": {\"id\": 1}}"
TextClients == "[{\"client\": {\"id\": 1}}]"
TextEmployees == "[{\"employee\": {\"id\": 1}}]"
TextTruncated == "{\"message\": "
TextHtml == "<html>Bad Gateway</html>"
TextEmpty == ""

IdOne == JDict(<<"id">>, [id |-> JInt(1)])

\* json.loads(text)
JsonLoads(text) ==
    CASE text = TextNotFound ->
            Return(JDict(<<"message">>, [message |-> JStr("Employee not found")]))
      [] text = TextInvalidToken ->
            Return(JDict(<<"message", "errors">>,
                         [message |-> JStr("Invalid token"),
                          errors |-> JList(<<JStr("token_invalid")>>)]))
      [] text = TextErrorsOnly ->
            Return(JDict(<<"errors">>, [errors |-> JList(<<JStr("token_invalid")>>)]))
      [] text = TextEmployee ->
            Return(JDict(<<"employee">>, [employee |-> IdOne]))
      [] text = TextClients ->
            Return(JList(<<JDict(<<"client">>, [client |-> IdOne])>>))
      [] text = TextEmployees ->
            Return(JList(<<JDict(<<"employee">>, [employee |-> IdOne])>>))
      [] text \in {TextTruncated, TextHtml, TextEmpty} ->
            Raise("JSONDecodeError", "Expecting value")

CtJson == "application/json"

Bodies ==
    { [ctype |-> CtJson, text |-> x] :
        x \in {TextNotFound, TextInvalidToken, TextErrorsOnly, TextEmployee,
               TextClients, TextEmployees, TextTruncated, TextEmpty} }
    \cup { [ctype |-> "text/html", text |-> TextHtml],
           [ctype |-> "text/plain", text |-> TextNotFound] }

\* the status codes tried, error statuses first
StatusSamples == <<401, 500, 404, 200, 201, 102, 304>>

Statuses == {StatusSamples[i] : i \in DOMAIN StatusSamples}

Response(s, b) == [status |-> s, ctype |-> b.ctype, text |-> b.text]

Responses == { Response(s, b) : s \in Statuses, b \in Bodies }

(***************************************************************************)
(* The two HTTP libraries.                                                 *)
(***************************************************************************)
\* requests.Response.ok: raise_for_status() raises for 400 <= status < 600
RequestsOk(r) == ~(400 <= r.status /\ r.status < 600)

\* requests.Response.json()
RequestsJson(r) == JsonLoads(r.text)

\* aiohttp.ClientResponse.ok
AiohttpOk(r) == 400 > r.status

\* await aiohttp.ClientResponse.json(): checks the declared content type,
\* gives None for an empty body, else json.loads
AiohttpJson(r) ==
    IF r.ctype # CtJson THEN Raise("ContentTypeError", "Attempt to decode JSON with unexpected mimetype")
    ELSE IF r.text = TextEmpty THEN Return(JNone)
    ELSE JsonLoads(r.text)

(***************************************************************************)
(* Headers.  A Python dict of headers is a sequence of <<name, value>>     *)
(* pairs in insertion order; both libraries put them on the wire through a *)
(* case-insensitive dict, modelled as a function of lower-cased names.     *)
(***************************************************************************)
Lower(n) ==
    CASE n = "Authorization" -> "authorization"
      [] n = "Content-type" -> "content-type"
      [] n = "Content-Type" -> "content-type"
      [] n = "X-Request-Id" -> "x-request-id"
      [] OTHER -> n

\* d[k] = v on a Python dict: replaces in place or appends
DictSet(d, k, v) ==
    IF \E i \in 1..Len(d) : d[i][1] = k
    THEN [i \in 1..Len(d) |-> IF d[i][1] = k THEN <<k, v>> ELSE d[i]]
    ELSE Append(d, <<k, v>>)

\* the case-insensitive dict built by inserting the pairs of d in order
CIDict(d) ==
    [n \in {Lower(d[i][1]) : i \in 1..Len(d)} |->
        LET last == CHOOSE i \in 1..Len(d) :
                        /\ Lower(d[i][1]) = n
                        /\ \A j \in 1..Len(d) : Lower(d[j][1]) = n => j <= i
        IN d[last][2]]

\* aiohttp ClientSession._prepare_headers: the session's default headers,
\* each replaced by the header of the same name given with the request
MergeHeaders(defaults, given) ==
    LET a == CIDict(defaults)
        b == CIDict(given)
    IN [n \in DOMAIN a \cup DOMAIN b |-> IF n \in DOMAIN b THEN b[n] ELSE a[n]]

(***************************************************************************)
(* SimplePay.request, lines 57-62: the request put on the wire.            *)
(***************************************************************************)
request_prepare(k, resource, method, kw) ==
    LET h1 == DictSet(kw.headers, "Authorization", k)
        h2 == DictSet(h1, "Content-type", "application/json")
    IN [method |-> method, url |-> URL \o resource, headers |-> CIDict(h2), json |-> kw.json]

(***************************************************************************)
(* SimplePay.request, lines 63-80: classification of the response.         *)
(***************************************************************************)
request_response(r) ==
    IF r.status = 404 THEN
        LET j == RequestsJson(r) IN
        IF j.kind = "raise" THEN Raise("NotFound", r.text)
        ELSE LET m == PyGetItem(j.value, "message") IN
             IF m.kind = "raise" THEN m ELSE Raise("NotFound", PyStr(m.value))
    ELSE IF ~RequestsOk(r) THEN
        LET j == RequestsJson(r) IN
        IF j.kind = "raise" THEN j
        ELSE LET m == PyGetItem(j.value, "message") IN
             IF m.kind = "raise" THEN m
             ELSE IF PyContains(j.value, "errors")
                  THEN LET a == PyIAddStr(m.value, PyStr(j.value.d["errors"])) IN
                       IF a.kind = "raise" THEN a
                       ELSE Raise("SimplePayException", PyStr(a.value))
                  ELSE Raise("SimplePayException", PyStr(m.value))
    ELSE Return(ResponseObj(r))

(***************************************************************************)
(* SimplePay.request_async, lines 94-108: the request put on the wire      *)
(* once the sleep is over.                                                 *)
(***************************************************************************)
request_async_prepare(k, resource, method, kw) ==
    LET h1 == DictSet(<<>>, "Authorization", k)
        h2 == DictSet(h1, "Content-type", "application/json")
    IN [method |-> method, url |-> URL \o resource,
        headers |-> MergeHeaders(h2, kw.headers), json |-> kw.json]

(***************************************************************************)
(* SimplePay.request_async, lines 109-134: classification of the response. *)
(* Line 116 awaits the bound method response.text, a TypeError; the json   *)
(* of line 120 is re-raised by line 123 whatever it is.                    *)
(***************************************************************************)
request_async_response(r) ==
    IF r.status = 404 THEN
        LET j == AiohttpJson(r) IN
        IF j.kind = "raise" THEN
            IF j.exc = "JSONDecodeError"
            THEN Raise("TypeError", "object method can't be used in 'await' expression")
            ELSE j
        ELSE LET m == PyGetItem(j.value, "message") IN
             IF m.kind = "raise" THEN m ELSE Raise("NotFound", PyStr(m.value))
    ELSE IF ~AiohttpOk(r) THEN
        LET j == AiohttpJson(r) IN
        IF j.kind = "raise" THEN j
        ELSE LET m == PyGetItem(j.value, "message") IN
             IF m.kind = "raise" THEN m
             ELSE IF PyContains(j.value, "errors")
                  THEN LET a == PyIAddStr(m.value, PyStr(j.value.d["errors"])) IN
                       IF a.kind = "raise" THEN a
                       ELSE Raise("SimplePayException",
                                  "Status: " \o ToString(r.status) \o ": " \o PyStr(a.value))
                  ELSE Raise("SimplePayException",
                             "Status: " \o ToString(r.status) \o ": " \o PyStr(m.value))
    ELSE AiohttpJson(r)

(***************************************************************************)
(* Python built-ins used by the endpoint wrappers.                         *)
(***************************************************************************)
\* s[0] for the strings a wrapper can meet as items (keys of a body)
FirstChar(s) ==
    CASE s = "message" -> "m"
      [] s = "errors" -> "e"
      [] s = "employee" -> "e"

\* the items a for loop over v visits
PyIter(v) ==
    CASE v.t = "list" -> Return(JList(v.l))
      [] v.t = "dict" -> Return(JList([i \in 1..Len(v.keys) |-> JStr(v.keys[i])]))
      [] v.t \in {"None", "int", "bool"} -> Raise("TypeError", "object is not iterable")

\* v[0]
PyGetFirst(v) ==
    CASE v.t = "list" -> IF Len(v.l) = 0 THEN Raise("IndexError", "list index out of range")
                         ELSE Return(v.l[1])
      [] v.t = "str" -> IF v.s = "" THEN Raise("IndexError", "string index out of range")
                        ELSE Return(JStr(FirstChar(v.s)))
      [] v.t = "dict" -> Raise("KeyError", "0")
      [] v.t \in {"None", "int", "bool"} -> Raise("TypeError", "object is not subscriptable")

\* int(v)
PyInt(v) ==
    CASE v.t = "int" -> v.n
      [] v.t = "str" /\ v.s = "5" -> 5

\* date.strftime('%Y-%m-%d') for a date of four-digit year
Pad2(n) == IF n < 10 THEN "0" \o ToString(n) ELSE ToString(n)
Strftime(date) == ToString(date.y) \o "-" \o Pad2(date.m) \o "-" \o Pad2(date.d)

RECURSIVE EachKey(_, _, _, _), EachFirst(_, _, _)

\* [x[k] for x in items], stopping at the first exception
EachKey(items, k, i, acc) ==
    IF i > Len(items) THEN Return(JList(acc))
    ELSE LET x == PyGetItem(items[i], k) IN
         IF x.kind = "raise" THEN x ELSE EachKey(items, k, i + 1, Append(acc, x.value))

\* [x[0] for x in items], stopping at the first exception
EachFirst(items, i, acc) ==
    IF i > Len(items) THEN Return(JList(acc))
    ELSE LET x == PyGetFirst(items[i]) IN
         IF x.kind = "raise" THEN x ELSE EachFirst(items, i + 1, Append(acc, x.value))

\* [{'leave_id': k, 'balance': v} for (k, v) in v.items()]
LeaveBalances(v) ==
    IF v.t # "dict" THEN Raise("AttributeError", "object has no attribute 'items'")
    ELSE Return(JList([i \in 1..Len(v.keys) |->
                JDict(<<"leave_id", "balance">>,
                      [leave_id |-> JStr(v.keys[i]), balance |-> v.d[v.keys[i]]])]))

(***************************************************************************)
(* The public operations of SimplePay, lines 47-546.                       *)
(***************************************************************************)
SyncOps ==
    {"request", "get_clients", "get_employees", "get_employee",
     "get_leave_accrual_policies", "get_leave_types", "get_leave_balances",
     "get_leave_days", "add_leave_days", "delete_leave_day", "get_payslips",
     "get_payslip", "get_payslip_pdf", "get_calculations",
     "get_payslip_calculations", "get_inherited_calculations",
     "create_payslip_calculation", "delete_calculation", "get_service_periods"}

AsyncOps ==
    {"request_async", "get_employee_async", "get_leave_accrual_policies_async",
     "get_leave_types_async", "get_leave_balances_async", "get_payslips_async",
     "get_payslip_async", "get_calculations_async",
     "get_inherited_calculations_async", "get_service_periods_async"}

\* create_calculation reads the undefined name data while building the
\* arguments of its first request (line 495); get_leave_days_async is a
\* plain def that iterates over the coroutine it never awaits (line 325)
BrokenOps == {"create_calculation", "get_leave_days_async"}

Ops == SyncOps \cup AsyncOps \cup BrokenOps

\* the blocking operation an operation shares its endpoint with
BaseOp(op) ==
    CASE op = "request_async" -> "request"
      [] op = "get_employee_async" -> "get_employee"
      [] op = "get_leave_accrual_policies_async" -> "get_leave_accrual_policies"
      [] op = "get_leave_types_async" -> "get_leave_types"
      [] op = "get_leave_balances_async" -> "get_leave_balances"
      [] op = "get_leave_days_async" -> "get_leave_days"
      [] op = "get_payslips_async" -> "get_payslips"
      [] op = "get_payslip_async" -> "get_payslip"
      [] op = "get_calculations_async" -> "get_calculations"
      [] op = "get_inherited_calculations_async" -> "get_inherited_calculations"
      [] op = "get_service_periods_async" -> "get_service_periods"
      [] OTHER -> op

\* '{}'.format(id)
Fmt(id) == ToString(id)

\* the resource argument an operation passes to its executor
Resource(op, a) ==
    LET b == BaseOp(op) IN
    CASE b = "request" -> a.resource
      [] b = "get_clients" -> "/clients"
      [] b = "get_employees" -> "/clients/" \o Fmt(a.id) \o "/employees"
      [] b = "get_employee" -> "/employees/" \o Fmt(a.id)
      [] b = "get_leave_accrual_policies" ->
            "/clients/" \o Fmt(a.id) \o "/reports/comparison_leave"
      [] b = "get_leave_types" -> "/clients/" \o Fmt(a.id) \o "/leave_types"
      [] b = "get_leave_balances" ->
            "/employees/" \o Fmt(a.id) \o "/leave_balances?date=" \o Strftime(a.date)
      [] b = "get_leave_days" -> "/employees/" \o Fmt(a.id) \o "/leave_days"
      [] b = "add_leave_days" -> "/employees/" \o Fmt(a.id) \o "/leave_days/create_multiple"
      [] b = "delete_leave_day" -> "/leave_days/" \o Fmt(a.id)
      [] b = "get_payslips" -> "/employees/" \o Fmt(a.id) \o "/payslips"
      [] b = "get_payslip" -> "/payslips/" \o Fmt(a.id)
      [] b = "get_payslip_pdf" -> "/payslips/" \o Fmt(a.id) \o ".pdf"
      [] b = "get_calculations" -> "/employees/" \o Fmt(a.id) \o "/calculations"
      [] b = "get_payslip_calculations" -> "/payslips/" \o Fmt(a.id) \o "/calculations"
      [] b = "get_inherited_calculations" ->
            "/employees/" \o Fmt(a.id) \o "/inherited_calculations"
      [] b = "create_payslip_calculation" -> "/payslips/" \o Fmt(a.id) \o "/calculations"
      [] b = "delete_calculation" -> "/calculations/" \o Fmt(a.id)
      [] b = "get_service_periods" -> "/employees/" \o Fmt(a.id) \o "/service_periods"

\* wrappers that leave the method argument out
VerbDefault(op, a) == IF BaseOp(op) = "request" THEN a.method ELSE "GET"

\* the method argument an operation passes to its executor
Verb(op, a) ==
    LET b == BaseOp(op) IN
    CASE b = "request" -> a.method
      [] b \in {"get_leave_accrual_policies", "add_leave_days",
                "create_payslip_calculation"} -> "POST"
      [] b \in {"delete_leave_day", "delete_calculation"} -> "DELETE"
      [] OTHER -> "GET"

\* the json body of get_leave_accrual_policies(_async), lines 211-217
AccrualBody(a) ==
    JDict(<<"start_date", "end_date", "wave_ids", "employee_ids", "leave_types", "humanize">>,
          [start_date |-> JStr(a.start_date), end_date |-> JStr(a.end_date),
           wave_ids |-> JNone, employee_ids |-> JNone,
           leave_types |-> a.leave_types, humanize |-> JBool(FALSE)])

\* a body that passes type_id on as it was given
LeaveDaysBodyRaw(a) ==
    JDict(<<"dates">>,
          [dates |-> JList([i \in 1..Len(a.leave_days) |->
                JDict(<<"date", "hours", "type_id">>,
                      [date |-> JStr(a.leave_days[i]), hours |-> JNone,
                       type_id |-> a.type_id])])])

\* the json body of add_leave_days, lines 340-343
LeaveDaysBody(a) ==
    JDict(<<"dates">>,
          [dates |-> JList([i \in 1..Len(a.leave_days) |->
                JDict(<<"date", "hours", "type_id">>,
                      [date |-> JStr(a.leave_days[i]), hours |-> JNone,
                       type_id |-> JInt(PyInt(a.type_id))])])])

\* the keyword arguments an operation passes on to its executor
Kwargs(op, a) ==
    LET b == BaseOp(op) IN
    CASE b = "request" -> [headers |-> a.headers, json |-> a.json]
      [] b = "get_leave_accrual_policies" -> [headers |-> <<>>, json |-> AccrualBody(a)]
      [] b = "add_leave_days" -> [headers |-> <<>>, json |-> LeaveDaysBody(a)]
      [] b = "create_payslip_calculation" -> [headers |-> <<>>, json |-> a.calculation]
      [] OTHER -> [headers |-> <<>>, json |-> JNone]

\* for x in v: out.append(x[k])
ForEachKey(v, k) ==
    LET it == PyIter(v) IN
    IF it.kind = "raise" THEN it ELSE EachKey(it.value.l, k, 1, <<>>)

\* for x in v: out.append(x[0])
ForEachFirst(v) ==
    LET it == PyIter(v) IN
    IF it.kind = "raise" THEN it ELSE EachFirst(it.value.l, 1, <<>>)

\* what a blocking wrapper makes of the Response its executor returned
SyncShape(op, r) ==
    LET j == RequestsJson(r) IN
    CASE op \in {"request", "create_payslip_calculation"} -> Return(ResponseObj(r))
      [] op = "get_payslip_pdf" -> Return(JBytes(r.text))
      [] j.kind = "raise" /\ op \notin {"request", "create_payslip_calculation", "get_payslip_pdf"} -> j
      [] j.kind # "raise" /\ op = "get_clients" -> ForEachKey(j.value, "client")
      [] j.kind # "raise" /\ op = "get_employees" -> ForEachKey(j.value, "employee")
      [] j.kind # "raise" /\ op = "get_employee" -> PyGetItem(j.value, "employee")
      [] j.kind # "raise" /\ op = "get_leave_balances" -> LeaveBalances(j.value)
      [] j.kind # "raise" /\ op = "get_leave_days" -> ForEachFirst(j.value)
      [] j.kind # "raise" /\ op = "get_payslips" -> PyIter(j.value)
      [] j.kind # "raise" /\ op = "get_service_periods" -> ForEachKey(j.value, "service_period")
      [] j.kind # "raise" /\ op \in {"get_leave_accrual_policies", "get_leave_types",
                    "add_leave_days", "delete_leave_day", "get_payslip",
                    "get_calculations", "get_payslip_calculations",
                    "get_inherited_calculations", "delete_calculation"} -> j

\* what a non-blocking wrapper makes of the value its executor returned
AsyncShape(op, v) ==
    CASE op = "get_employee_async" -> PyGetItem(v, "employee")
      [] op = "get_leave_balances_async" -> LeaveBalances(v)
      [] op = "get_payslips_async" -> Raise("AttributeError", "object has no attribute 'json'")
      [] op = "get_service_periods_async" -> ForEachKey(v, "service_period")
      [] op \in {"request_async", "get_leave_accrual_policies_async",
                 "get_leave_types_async", "get_payslip_async", "get_calculations_async",
                 "get_inherited_calculations_async"} -> Return(v)

\* the outcome of a blocking operation whose request was answered by r
SyncOutcome(op, r) ==
    LET o == request_response(r) IN
    IF o.kind = "raise" THEN o ELSE SyncShape(op, o.value.resp)

\* the outcome of a non-blocking operation whose request was answered by r
AsyncOutcome(op, r) ==
    LET o == request_async_response(r) IN
    IF o.kind = "raise" THEN o ELSE AsyncShape(op, o.value)

\* the outcome of an operation that fails before it reaches its executor
BrokenOutcome(op) ==
    CASE op = "create_calculation" -> Raise("NameError", "name 'data' is not defined")
      [] op = "get_leave_days_async" -> Raise("TypeError", "'coroutine' object is not iterable")

(***************************************************************************)
(* Inputs: the API keys a client is constructed with and the arguments     *)
(* callers pass.                                                           *)
(***************************************************************************)
Keys == {"key-A", "key-B"}

Ids == {1, 42}

Dates == {[y |-> 2024, m |-> 1, d |-> 2], [y |-> 2023, m |-> 12, d |-> 31]}

Resources == {"/", "/clients"}

Methods == {"GET", "DELETE"}

\* headers= given by the caller of an executor
KwHeaders ==
    { <<>>,
      << <<"X-Request-Id", "abc">> >>,
      << <<"Authorization", "other-key">> >> }

LeaveDayLists == { <<>>, <<"2024-01-01">>, <<"2024-01-01", "2024-01-02">> }

TypeIds == {JInt(5), JStr("5")}

BaseArgs ==
    [id |-> 0, date |-> [y |-> 2024, m |-> 1, d |-> 2],
     start_date |-> "2024-01-01", end_date |-> "2024-01-31",
     leave_types |-> JList(<<JInt(1), JInt(2)>>),
     type_id |-> JNone, leave_days |-> <<>>, calculation |-> JNone,
     resource |-> "/", method |-> "GET", headers |-> <<>>, json |-> JNone]

ArgSets(op) ==
    LET b == BaseOp(op) IN
    CASE b = "request" ->
            { [BaseArgs EXCEPT !.resource = res, !.method = m, !.headers = h] :
                res \in Resources, m \in Methods, h \in KwHeaders }
      [] b = "get_clients" -> {BaseArgs}
      [] b = "get_leave_balances" ->
            { [BaseArgs EXCEPT !.id = i, !.date = d] : i \in Ids, d \in Dates }
      [] b = "add_leave_days" ->
            { [BaseArgs EXCEPT !.id = i, !.type_id = ty, !.leave_days = l] :
                i \in Ids, ty \in TypeIds, l \in LeaveDayLists }
      [] b \in {"create_calculation", "create_payslip_calculation"} ->
            { [BaseArgs EXCEPT !.id = i,
                               !.calculation = JDict(<<"amount">>, [amount |-> JInt(100)])] :
                i \in Ids }
      [] OTHER -> { [BaseArgs EXCEPT !.id = i] : i \in Ids }

(***************************************************************************)
(* State.  api_key is the argument SimplePay was constructed with and key  *)
(* is SimplePay.key, the only attribute of the client; log lists, for the  *)
(* calls not yet collected, the order in which they were made and ended;   *)
(* call[t] is the call task t holds: where                                 *)
(* it stands (pc), its operation and arguments, the locals sleep_time and  *)
(* the time elapsed in asyncio.sleep, the number of sleeps it has finished,*)
(* the requests it has put on the wire, the response received and the      *)
(* outcome handed to the caller.                                           *)
(***************************************************************************)
NoResp == [status |-> 0, ctype |-> "", text |-> ""]

Idle ==
    [pc |-> "idle", op |-> "none", args |-> BaseArgs, sleep_time |-> 0, elapsed |-> 0,
     slept |-> 0, sent |-> <<>>, resp |-> NoResp, outcome |-> NoOutcome]

\* SimplePay.__init__
Init ==
    /\ api_key \in Keys
    /\ key = api_key
    /\ call = [t \in Tasks |-> Idle]
    /\ log = <<>>

\* an executor that keeps the Authorization value it sent as the client's key
KeyFromRequest(k, req) == req.headers["authorization"]

\* self.key after an executor has sent req: neither executor assigns it
KeyAfterRequest(k, req) == k

\* the log without the events of task t
Forget(l, t) == SelectSeq(l, LAMBDA e : e[2] # t)

\* random.randrange(lo, hi)
randrange(lo, hi) == {n \in lo..hi : n < hi}

\* a sleep that returns before its time is over
SleepOverEarly(c) == TRUE

\* asyncio.sleep(sleep_time) has returned
SleepOver(c) == c.elapsed >= c.sleep_time

\* a blocking operation is called: its request goes out at once
CallSync(t, op, a) ==
    /\ op \in SyncOps
    /\ call[t].pc = "idle"
    /\ LET req == request_prepare(key, Resource(op, a), Verb(op, a), Kwargs(op, a)) IN
          /\ call' = [call EXCEPT ![t] =
                [Idle EXCEPT !.pc = "inflight", !.op = op, !.args = a, !.sent = <<req>>]]
          /\ key' = KeyAfterRequest(key, req)
    /\ log' = Append(log, <<"call", t>>)
    /\ UNCHANGED api_key

\* a non-blocking operation is called: the coroutine draws its sleep time
\* and suspends in asyncio.sleep
CallAsyncFrom(t, op, a, times) ==
    /\ op \in AsyncOps
    /\ call[t].pc = "idle"
    /\ \E st \in times :
          call' = [call EXCEPT ![t] =
            [Idle EXCEPT !.pc = "sleeping", !.op = op, !.args = a, !.sleep_time = st]]
    /\ log' = Append(log, <<"call", t>>)
    /\ UNCHANGED <<api_key, key>>

CallAsync(t, op, a) == CallAsyncFrom(t, op, a, randrange(SleepLo, SleepHi))

\* an operation that raises before any executor runs
CallBroken(t, op, a) ==
    /\ op \in BrokenOps
    /\ call[t].pc = "idle"
    /\ call' = [call EXCEPT ![t] =
            [Idle EXCEPT !.pc = "done", !.op = op, !.args = a,
                         !.outcome = BrokenOutcome(op)]]
    /\ log' = log \o << <<"call", t>>, <<"done", t>> >>
    /\ UNCHANGED <<api_key, key>>

\* time passes for every coroutine suspended in asyncio.sleep
Tick ==
    /\ \E t \in Tasks : call[t].pc = "sleeping" /\ ~SleepOver(call[t])
    /\ call' = [t \in Tasks |->
            IF call[t].pc = "sleeping" /\ ~SleepOver(call[t])
            THEN [call[t] EXCEPT !.elapsed = @ + TickStep]
            ELSE call[t]]
    /\ UNCHANGED <<api_key, key, log>>

\* a sleep that holds the whole event loop: no coroutine resumes while
\* another one sleeps
WakeBlocking(t) ==
    /\ call[t].pc = "sleeping"
    /\ SleepOver(call[t])
    /\ \A u \in Tasks \ {t} : call[u].pc # "sleeping"
    /\ LET req == request_async_prepare(key, Resource(call[t].op, call[t].args),
                                         Verb(call[t].op, call[t].args),
                                         Kwargs(call[t].op, call[t].args)) IN
          /\ call' = [call EXCEPT ![t] =
                [@ EXCEPT !.pc = "inflight", !.slept = @ + 1, !.sent = Append(@, req)]]
          /\ key' = KeyAfterRequest(key, req)
    /\ UNCHANGED <<api_key, log>>

\* asyncio.sleep returns and the coroutine sends its request
Wake(t) ==
    /\ call[t].pc = "sleeping"
    /\ SleepOver(call[t])
    /\ LET req == request_async_prepare(key, Resource(call[t].op, call[t].args),
                                         Verb(call[t].op, call[t].args),
                                         Kwargs(call[t].op, call[t].args)) IN
          /\ call' = [call EXCEPT ![t] =
                [@ EXCEPT !.pc = "inflight", !.slept = @ + 1, !.sent = Append(@, req)]]
          /\ key' = KeyAfterRequest(key, req)
    /\ UNCHANGED <<api_key, log>>

\* the response r arrives; the executor classifies it and the wrapper
\* shapes the result
Respond(t, r) ==
    /\ call[t].pc = "inflight"
    /\ call' = [call EXCEPT ![t] =
            [@ EXCEPT !.pc = "done", !.resp = r, !.sleep_time = 0, !.elapsed = 0,
                      !.outcome = IF call[t].op \in SyncOps
                                  THEN SyncOutcome(call[t].op, r)
                                  ELSE AsyncOutcome(call[t].op, r)]]
    /\ log' = Append(log, <<"done", t>>)
    /\ UNCHANGED <<api_key, key>>

\* the caller takes the outcome; the call's objects are dropped
Collect(t) ==
    /\ call[t].pc = "done"
    /\ call' = [call EXCEPT ![t] = Idle]
    /\ log' = Forget(log, t)
    /\ UNCHANGED <<api_key, key>>

\* no call is in progress
Quiet == \A t \in Tasks : call[t].pc = "idle"

\* calls issued one at a time, as the script of src/tests.py does
Next ==
    \/ \E t \in Tasks, op \in SyncOps : \E a \in ArgSets(op) : Quiet /\ CallSync(t, op, a)
    \/ \E t \in Tasks, op \in AsyncOps : \E a \in ArgSets(op) : Quiet /\ CallAsync(t, op, a)
    \/ \E t \in Tasks, op \in BrokenOps : \E a \in ArgSets(op) : Quiet /\ CallBroken(t, op, a)
    \/ Tick
    \/ \E t \in Tasks : Wake(t)
    \/ \E t \in Tasks, i \in DOMAIN StatusSamples, b \in Bodies :
            Respond(t, Response(StatusSamples[i], b))
    \/ \E t \in Tasks : Collect(t)

Spec == Init /\ [][Next]_vars

(***************************************************************************)
(* Non-blocking calls issued concurrently on one event loop (gather): any  *)
(* task may call while others sleep or wait.  The sleep times are the two  *)
(* ends of the range, the operations one executor call and one wrapper.    *)
(***************************************************************************)
SleepSamples == {n \in randrange(SleepLo, SleepHi) : n = SleepLo \/ n = SleepHi - 1}

ConcurrentOps == {"request_async", "get_employee_async"}

ConcurrentArgs(op) ==
    {a \in ArgSets(op) : a.id \in {0, 1} /\ a.headers = <<>>
                            /\ a.method = "GET" /\ a.resource = "/"}

ConcurrentResponses ==
    { Response(200, [ctype |-> CtJson, text |-> TextEmployee]),
      Response(404, [ctype |-> CtJson, text |-> TextNotFound]),
      Response(500, [ctype |-> "text/html", text |-> TextHtml]) }

Arrive(t) == \E r \in ConcurrentResponses : Respond(t, r)

NextAsync ==
    \/ \E t \in Tasks, op \in ConcurrentOps : \E a \in ConcurrentArgs(op) :
            CallAsyncFrom(t, op, a, SleepSamples)
    \/ Tick
    \/ \E t \in Tasks : Wake(t)
    \/ \E t \in Tasks : Arrive(t)
    \/ \E t \in Tasks : Collect(t)

\* the event loop runs every coroutine that is ready, time passes and every
\* request is answered
SpecAsync ==
    /\ Init /\ [][NextAsync]_vars
    /\ WF_vars(Tick)
    /\ \A t \in Tasks : WF_vars(Wake(t)) /\ WF_vars(Arrive(t))

TypeOK ==
    /\ key \in Keys
    /\ \A t \in Tasks :
        /\ call[t].pc \in {"idle", "sleeping", "inflight", "done"}
        /\ call[t].op \in Ops \cup {"none"}
        /\ Len(call[t].sent) <= 1

(***************************************************************************)
(* Vocabulary of the properties.                                           *)
(***************************************************************************)
Done(t) == call[t].pc = "done"

Executors == {"request", "request_async"}

\* a non-blocking operation by its name
NonBlocking(op) == op \in AsyncOps \cup {"get_leave_days_async"}

Is2xx(r) == 200 <= r.status /\ r.status <= 299

\* the body is valid JSON
ValidJson(r) == JsonLoads(r.text).kind = "return"

\* the body is valid JSON with a field f
HasField(r, f) ==
    /\ ValidJson(r)
    /\ JsonLoads(r.text).value.t = "dict"
    /\ PyContains(JsonLoads(r.text).value, f)

Field(r, f) == JsonLoads(r.text).value.d[f]

Raised(o, e, m) == o.kind = "raise" /\ o.exc = e /\ o.message = m

Failures == {"NotFound", "SimplePayException"}

\* the delay of a call in milliseconds
SleepMs(c) == c.sleep_time * 10

(***************************************************************************)
(* C1: a 404 response makes either executor raise NotFound, with the       *)
(* body's message field when the body is valid JSON that has one, and with *)
(* the raw response text otherwise; nothing else is raised.                *)
(***************************************************************************)
C1_NotFoundMessage ==
    \A t \in Tasks :
        (Done(t) /\ call[t].op \in Executors /\ call[t].resp.status = 404) =>
            Raised(call[t].outcome, "NotFound",
                   IF HasField(call[t].resp, "message")
                   THEN Field(call[t].resp, "message").s
                   ELSE call[t].resp.text)

(***************************************************************************)
(* C2: a response that is neither 2xx nor 404 and whose JSON body has a    *)
(* message field makes either executor raise SimplePayException whose      *)
(* message is exactly that field, followed by str(errors) when the body    *)
(* has an errors field, with nothing prepended or appended.                *)
(***************************************************************************)
C2_GenericMessage ==
    \A t \in Tasks :
        (/\ Done(t) /\ call[t].op \in Executors
         /\ ~Is2xx(call[t].resp) /\ call[t].resp.status # 404
         /\ HasField(call[t].resp, "message")) =>
            Raised(call[t].outcome, "SimplePayException",
                   IF HasField(call[t].resp, "errors")
                   THEN Field(call[t].resp, "message").s
                            \o PyStr(Field(call[t].resp, "errors"))
                   ELSE Field(call[t].resp, "message").s)

(***************************************************************************)
(* C3: a response that is neither 2xx nor 404 and whose body is not valid  *)
(* JSON makes either executor raise SimplePayException with the raw        *)
(* response text; no parsing error reaches the caller.                     *)
(***************************************************************************)
C3_NonJsonFallsBack ==
    \A t \in Tasks :
        (/\ Done(t) /\ call[t].op \in Executors
         /\ ~Is2xx(call[t].resp) /\ call[t].resp.status # 404
         /\ ~ValidJson(call[t].resp)) =>
            Raised(call[t].outcome, "SimplePayException", call[t].resp.text)

(***************************************************************************)
(* C4: on a 2xx response either executor raises nothing and returns the    *)
(* response object itself, not a parsed or reshaped body.                  *)
(***************************************************************************)
C4_SuccessReturnsResponse ==
    \A t \in Tasks :
        (Done(t) /\ call[t].op \in Executors /\ Is2xx(call[t].resp)) =>
            /\ call[t].outcome.kind = "return"
            /\ call[t].outcome.value = ResponseObj(call[t].resp)

(***************************************************************************)
(* C5: every call of every public operation ends in a returned result or   *)
(* in one of the two failures NotFound and SimplePayException, never in a  *)
(* third kind of error.                                                    *)
(***************************************************************************)
C5_OneOutcome ==
    \A t \in Tasks :
        Done(t) =>
            \/ call[t].outcome.kind = "return"
            \/ call[t].outcome.kind = "raise" /\ call[t].outcome.exc \in Failures

(***************************************************************************)
(* C6: on the same response the blocking and the non-blocking executor     *)
(* produce the same kind of outcome and, for a failure, the same message.  *)
(***************************************************************************)
SameClassification(o1, o2) ==
    /\ o1.kind = o2.kind
    /\ o1.exc = o2.exc
    /\ o1.kind = "raise" => o1.message = o2.message

C6_SameClassification ==
    \A t \in Tasks :
        /\ (Done(t) /\ call[t].op = "request") =>
                SameClassification(call[t].outcome, request_async_response(call[t].resp))
        /\ (Done(t) /\ call[t].op = "request_async") =>
                SameClassification(call[t].outcome, request_response(call[t].resp))

(***************************************************************************)
(* C7: every status that is neither 2xx nor 404, 1xx and 3xx included,     *)
(* makes the executor raise SimplePayException; the response is never      *)
(* returned as a success.                                                  *)
(***************************************************************************)
C7_NonSuccessIsFailure ==
    \A t \in Tasks :
        (/\ Done(t) /\ call[t].op \in Executors
         /\ ~Is2xx(call[t].resp) /\ call[t].resp.status # 404) =>
            /\ call[t].outcome.kind = "raise"
            /\ call[t].outcome.exc = "SimplePayException"

(***************************************************************************)
(* C8: every request put on the wire, by either executor and whatever      *)
(* headers the caller passes, carries the API key of the client as its     *)
(* Authorization header and application/json as its Content-Type, and goes *)
(* to the base URL followed by the resource path.                          *)
(***************************************************************************)
C8_AuthenticatedRequests ==
    \A t \in Tasks : \A i \in 1..Len(call[t].sent) :
        LET req == call[t].sent[i] IN
        /\ "authorization" \in DOMAIN req.headers
        /\ req.headers["authorization"] = key
        /\ "content-type" \in DOMAIN req.headers
        /\ req.headers["content-type"] = "application/json"
        /\ req.url = URL \o Resource(call[t].op, call[t].args)

(***************************************************************************)
(* C9: a non-blocking call draws a delay d with 200ms <= d < 1000ms and    *)
(* sends its request only once that delay has fully elapsed: no request    *)
(* is on the wire while the call sleeps, and a call that has sent a        *)
(* request has finished exactly one sleep.                                 *)
(***************************************************************************)
C9_DelayBeforeDispatch ==
    \A t \in Tasks :
        NonBlocking(call[t].op) =>
            /\ call[t].pc = "sleeping" =>
                    /\ 200 <= SleepMs(call[t]) /\ SleepMs(call[t]) < 1000
                    /\ call[t].sent = <<>>
                    /\ call[t].slept = 0
            /\ call[t].pc = "inflight" =>
                    /\ 200 <= SleepMs(call[t]) /\ SleepMs(call[t]) < 1000
                    /\ call[t].elapsed >= call[t].sleep_time
            /\ call[t].sent # <<>> => call[t].slept = 1

\* a non-blocking call has sent its request after the longest delay
C9_Witness ==
    \E t \in Tasks :
        /\ call[t].op \in AsyncOps
        /\ call[t].pc = "inflight"
        /\ Len(call[t].sent) = 1
        /\ call[t].slept = 1
        /\ SleepMs(call[t]) = 990
        /\ call[t].elapsed >= call[t].sleep_time

(***************************************************************************)
(* C10: every call of every public operation sends exactly one HTTP        *)
(* request and yields one outcome; nothing is sent after a failure.        *)
(***************************************************************************)
C10_OneRequestPerCall ==
    \A t \in Tasks :
        /\ Len(call[t].sent) <= 1
        /\ Done(t) => Len(call[t].sent) = 1

(***************************************************************************)
(* C11: concurrently issued non-blocking calls are independent: whatever   *)
(* the other calls are doing (sleeping, waiting on the network), a task    *)
(* can issue a call, time passes for a call whose delay is not over, a     *)
(* call whose delay is over can send its request and a call waiting for    *)
(* its response can complete; and every call that was issued eventually    *)
(* completes, given that its delay elapses and its response arrives.       *)
(***************************************************************************)
Pending(t) == call[t].pc \in {"sleeping", "inflight"}

C11_CanProgress ==
    \A t \in Tasks :
        /\ call[t].pc = "idle" =>
                ENABLED (\E op \in ConcurrentOps : \E a \in ConcurrentArgs(op) :
                            CallAsyncFrom(t, op, a, SleepSamples))
        /\ (call[t].pc = "sleeping" /\ ~SleepOver(call[t])) => ENABLED Tick
        /\ (call[t].pc = "sleeping" /\ SleepOver(call[t])) => ENABLED Wake(t)
        /\ call[t].pc = "inflight" => ENABLED Arrive(t)

C11_Independent ==
    /\ []C11_CanProgress
    /\ \A t \in Tasks : Pending(t) ~> Done(t)

\* the call made second has completed while the call made first is still
\* in its delay
C11_Witness ==
    /\ log = << <<"call", 1>>, <<"call", 2>>, <<"done", 2>> >>
    /\ call[1].pc = "sleeping"
    /\ call[2].pc = "done"

(***************************************************************************)
(* C12: every operation of the endpoint table is exposed by the client     *)
(* and issues its request with the listed path, ids substituted, and the   *)
(* listed verb: GET for the list and get operations, POST for the leave    *)
(* accrual comparison, add leave days and create payslip calculation,      *)
(* DELETE for delete leave day and delete calculation.                     *)
(***************************************************************************)
TableOperations ==
    {"get_clients", "get_employees", "get_employee", "get_leave_accrual_policies",
     "get_leave_types", "get_leave_balances", "get_leave_days", "add_leave_days",
     "delete_leave_day", "get_payslips", "get_payslip", "get_payslip_pdf",
     "get_calculations", "get_payslip_calculations", "get_inherited_calculations",
     "create_payslip_calculation", "delete_calculation", "get_service_periods"}

\* YYYY-MM-DD of the dates callers pass
TableDate(date) ==
    CASE date = [y |-> 2024, m |-> 1, d |-> 2] -> "2024-01-02"
      [] date = [y |-> 2023, m |-> 12, d |-> 31] -> "2023-12-31"

TableId(id) == CASE id = 1 -> "1" [] id = 42 -> "42"

TablePath(b, a) ==
    LET id == TableId(a.id) IN
    CASE b = "get_clients" -> "/clients"
      [] b = "get_employees" -> "/clients/" \o id \o "/employees"
      [] b = "get_employee" -> "/employees/" \o id
      [] b = "get_leave_accrual_policies" -> "/clients/" \o id \o "/reports/comparison_leave"
      [] b = "get_leave_types" -> "/clients/" \o id \o "/leave_types"
      [] b = "get_leave_balances" ->
            "/employees/" \o id \o "/leave_balances?date=" \o TableDate(a.date)
      [] b = "get_leave_days" -> "/employees/" \o id \o "/leave_days"
      [] b = "add_leave_days" -> "/employees/" \o id \o "/leave_days/create_multiple"
      [] b = "delete_leave_day" -> "/leave_days/" \o id
      [] b = "get_payslips" -> "/employees/" \o id \o "/payslips"
      [] b = "get_payslip" -> "/payslips/" \o id
      [] b = "get_payslip_pdf" -> "/payslips/" \o id \o ".pdf"
      [] b = "get_calculations" -> "/employees/" \o id \o "/calculations"
      [] b = "get_payslip_calculations" -> "/payslips/" \o id \o "/calculations"
      [] b = "get_inherited_calculations" -> "/employees/" \o id \o "/inherited_calculations"
      [] b = "create_payslip_calculation" -> "/payslips/" \o id \o "/calculations"
      [] b = "delete_calculation" -> "/calculations/" \o id
      [] b = "get_service_periods" -> "/employees/" \o id \o "/service_periods"

TableVerb(b) ==
    CASE b \in {"get_leave_accrual_policies", "add_leave_days",
                "create_payslip_calculation"} -> "POST"
      [] b \in {"delete_leave_day", "delete_calculation"} -> "DELETE"
      [] OTHER -> "GET"

TypeIdNumber(ty) == CASE ty = JInt(5) -> 5 [] ty = JStr("5") -> 5

C13_LeaveDaysBody ==
    \A t \in Tasks :
        (call[t].op = "add_leave_days" /\ call[t].pc \in {"inflight", "done"}) =>
            /\ Len(call[t].sent) = 1
            /\ LET req == call[t].sent[1]
                   days == call[t].args.leave_days
               IN /\ req.method = "POST"
                  /\ req.json.t = "dict"
                  /\ req.json.keys = <<"dates">>
                  /\ req.json.d["dates"].t = "list"
                  /\ Len(req.json.d["dates"].l) = Len(days)
                  /\ \A i \in 1..Len(days) :
                        LET entry == req.json.d["dates"].l[i] IN
                        /\ entry.t = "dict"
                        /\ entry.keys = <<"date", "hours", "type_id">>
                        /\ entry.d["date"] = [t |-> "str", s |-> days[i]]
                        /\ entry.d["hours"] = [t |-> "None"]
                        /\ entry.d["type_id"] =
                                [t |-> "int", n |-> TypeIdNumber(call[t].args.type_id)]

\* add_leave_days("2024-01-01", "2024-01-02") with type_id "5" has sent its body
C13_Witness ==
    \E t \in Tasks :
        /\ call[t].op = "add_leave_days"
        /\ call[t].args.leave_days = <<"2024-01-01", "2024-01-02">>
        /\ call[t].args.type_id = [t |-> "str", s |-> "5"]
        /\ Len(call[t].sent) = 1
        /\ Len(call[t].sent[1].json.d["dates"].l) = 2

(***************************************************************************)
(* C14: a malformed success is not normalised: when a wrapper that         *)
(* extracts a field receives a 2xx response whose JSON body lacks that     *)
(* field (get_employee without employee, get_clients with a record without *)
(* client), the call ends with a data-access error that is neither         *)
(* NotFound nor SimplePayException: KeyError in the blocking wrappers.     *)
(***************************************************************************)
\* the field a wrapper reads from the body itself
FieldOfBody(op) ==
    CASE op \in {"get_employee", "get_employee_async"} -> "employee"
      [] OTHER -> ""

\* the field a wrapper reads from every record of the body
FieldOfRecords(op) ==
    CASE op = "get_clients" -> "client"
      [] op = "get_employees" -> "employee"
      [] op \in {"get_service_periods", "get_service_periods_async"} -> "service_period"
      [] OTHER -> ""

\* the body is valid JSON and lacks the field op extracts
LacksField(op, r) ==
    /\ ValidJson(r)
    /\ LET v == JsonLoads(r.text).value IN
       \/ /\ FieldOfBody(op) # ""
          /\ v.t = "dict"
          /\ \A i \in 1..Len(v.keys) : v.keys[i] # FieldOfBody(op)
       \/ /\ FieldOfRecords(op) # ""
          /\ v.t = "list"
          /\ \E j \in 1..Len(v.l) :
                /\ v.l[j].t = "dict"
                /\ \A i \in 1..Len(v.l[j].keys) : v.l[j].keys[i] # FieldOfRecords(op)

C14_MalformedSuccess ==
    \A t \in Tasks :
        (Done(t) /\ Is2xx(call[t].resp) /\ LacksField(call[t].op, call[t].resp)) =>
            /\ call[t].outcome.kind = "raise"
            /\ call[t].outcome.exc \notin Failures
            /\ call[t].op \in SyncOps => call[t].outcome.exc = "KeyError"

\* get_clients has met a record without client in a 200 response
C14_Witness ==
    \E t \in Tasks :
        /\ Done(t)
        /\ call[t].op = "get_clients"
        /\ call[t].resp.status = 200
        /\ call[t].resp.text = TextEmployees
        /\ call[t].outcome.exc = "KeyError"

(***************************************************************************)
(* C15: the client is stateless across calls: after any sequence of        *)
(* operations, successful or failed, blocking or non-blocking, the key     *)
(* stored on the client is the one it was constructed with; key is the     *)
(* only attribute the client has.                                          *)
(***************************************************************************)
C15_KeyImmutable == key = api_key

\* a non-blocking call given another Authorization header has failed, and
\* the client still holds its key
C15_Witness ==
    \E t \in Tasks :
        /\ Done(t)
        /\ call[t].op = "request_async"
        /\ call[t].args.headers = << <<"Authorization", "other-key">> >>
        /\ call[t].outcome.kind = "raise"
        /\ key = api_key

(***************************************************************************)
(* C16: each non-blocking wrapper is equivalent to its blocking            *)
(* counterpart: for every operation that has both forms and every 2xx      *)
(* response, the _async form returns the same shaped result as the         *)
(* blocking form and does not end in an error where the blocking form      *)
(* succeeds.                                                               *)
(***************************************************************************)
PairedOps ==
    {"get_employee_async", "get_leave_types_async", "get_leave_balances_async",
     "get_leave_days_async", "get_payslips_async", "get_payslip_async",
     "get_calculations_async", "get_inherited_calculations_async",
     "get_service_periods_async", "get_leave_accrual_policies_async"}

\* the 2xx responses on which the blocking form of op returns a result
BlockingSucceeds(op) ==
    {r \in Responses : Is2xx(r) /\ SyncOutcome(BaseOp(op), r).kind = "return"}

\* the responses a finished call of task t can have been answered with: the
\* one it received, or any one if it ended before it sent its request
Answers(t) ==
    IF call[t].sent = <<>> THEN Responses ELSE {call[t].resp}

C16_AsyncEquivalent ==
    \A t \in Tasks :
        (Done(t) /\ call[t].op \in PairedOps) =>
            \A r \in Answers(t) \cap BlockingSucceeds(call[t].op) :
                call[t].outcome = SyncOutcome(BaseOp(call[t].op), r)

====
